---- MODULE Spec2Model ----
(***************************************************************************)
(* Model of the image-asset code of the backend:                           *)
(*   utils/imagekitUpload.js   (src/scripts/cleanupData.js, lines 182-516) *)
(*   controllers/logoController.js (src/unnamed/part_006, lines 1-215)     *)
(*   controllers/productController.js, updateProduct, as documented in     *)
(*   src/unnamed/part_004                                                  *)
(*   scripts/cleanupData.js    (src/scripts/cleanupData.js, lines 1-123)   *)
(*                                                                         *)
(* Specifications: Spec (uploadLogo and deleteLogo), ServerSpec (with      *)
(* getLogo and restarts), NamingSpec (the file name of a logo upload),     *)
(* ResolveSpec (one getImageKitFileId call), UpdateSpec (one updateProduct *)
(* request), RaceSpec (two of them), CleanupSpec (the cleanup script).     *)
(*                                                                         *)
(* Strings are sequences of one-character tokens.  The token "h" stands    *)
(* for a whole URL origin ("https://host"), "/" is the path separator and  *)
(* the other tokens are ordinary characters.  The remote asset host is a   *)
(* sequence of asset records in the host's list order.                     *)
(***************************************************************************)
EXTENDS Integers, Sequences, FiniteSets, TLC

VARIABLES
    host,              \* assets on the remote host, in the host's list order
    remoteOps,         \* log of the remote calls issued so far
    \* ---- getImageKitFileId (one call)
    imageUrl,          \* the argument
    rpc,               \* position of the call: start, method1, method2, done
    filePath,          \* local: the extracted path
    fileName,          \* local: last path part
    folderPath,        \* local: folder of the path
    folderResp,        \* what listFiles({path}) answered
    globalResp,        \* what listFiles({}) answered
    result,            \* the value the call returned
    outcome,           \* none, returned or threw
    \* ---- process environment
    endpoint,          \* process.env.IMAGEKIT_URL_ENDPOINT, Null when unset
    \* ---- controllers/logoController.js
    currentLogoUrl,    \* module variable, Null at process start
    currentLogoFileId, \* module variable, Null at process start
    kind,              \* per request: none, uploadLogo or deleteLogo
    pc,                \* per request: new, awaitUpload, uploadSettled,
                       \*   awaitDelete, deleteSettled, done
    uploadResult,      \* per request: local uploadResult
    remoteResult,      \* per request: how its last remote call settled
    status,            \* per request: HTTP status sent, 0 while none
    \* ---- history, read by the properties only
    oldLogo,           \* per request: the fileId uploadLogo found tracked
    overlapped,        \* some request began while another was in flight
    deleteFailed,      \* some deleteFile call was rejected
    \* ---- controllers/productController.js : updateProduct (one request)
    photos,            \* the product's photo list in the database
    existingPhotos,    \* local: the photo list the handler read
    existingPhotosToKeep, \* request body: the photos to keep
    imagesToDelete,    \* local: the photos marked for deletion
    upc,               \* position: new, saving, deleting, done
    itemPc,            \* per image: todo, lookup, awaitDelete, deleteSettled, done
    targetId,          \* per image: the fileId deleteFile was called with
    settledAs,         \* per image: how its deleteFile call settled
    deleted,           \* per image: what deleteImageFromImageKit returned
    lookedUp,          \* per image: what getImageKitFileId returned
    report,            \* the counts of the deletion report
    ustatus,           \* HTTP status sent, 0 while none
    saved,             \* history: the database write succeeded
    \* ---- controllers/logoController.js : getLogo and the process
    getBody,           \* per request: the data getLogo sent, Null when none
    restarts,          \* number of process restarts so far
    \* ---- history, read by the properties only
    arrivedBefore,     \* number of requests that arrived before the last restart
    lostLogo,          \* the fileId tracked when the process last restarted
    \* ---- uploadLogo and uploadImageToImageKit : the name of one upload
    nameReq,           \* the request: body.fileName, body.logoBase64, file.originalname
    finalFileName,     \* local of uploadLogo
    uploadName,        \* uploadParams.fileName
    npc,               \* position: new, named, uploaded, rejected
    \* ---- scripts/cleanupData.js (one run of the script)
    cpc,               \* position: try, finally, closed, exited
    cstep,             \* the await of the try block the run is at
    connection,        \* the mongoose connection: none, open, closed
    deletedColls,      \* the collections whose deleteMany succeeded
    exitCode,          \* the code of process.exit, Null while running
    failedAt,          \* history: the step that rejected, 0 when none
    \* ---- controllers/productController.js : two updateProduct requests for
    \*      one product (its photo list is the variable photos)
    reqPc,             \* per request: new, awaitUpload, saving, deleting,
                       \*   awaitDelete, done
    reqRead,           \* per request: the photo list it read
    reqKeep,           \* per request: the photos to keep it sent
    reqNew,            \* per request: the URL of the photo it uploaded, Null when none
    reqMarked,         \* per request: its imagesToDelete
    reqNext,           \* per request: the index of the image to delete next
    reqStatus,         \* per request: HTTP status sent, 0 while none
    saveOrder          \* history: the requests in the order of their writes

resolveVars == <<imageUrl, rpc, filePath, fileName, folderPath, folderResp,
                 globalResp, result, outcome>>

logoVars == <<currentLogoUrl, currentLogoFileId, kind, pc, uploadResult,
              remoteResult, status, oldLogo, overlapped, deleteFailed>>

serverVars == <<getBody, restarts, arrivedBefore, lostLogo>>
namingVars == <<nameReq, finalFileName, uploadName, npc>>
cleanupVars == <<cpc, cstep, connection, deletedColls, exitCode, failedAt>>
raceVars == <<reqPc, reqRead, reqKeep, reqNew, reqMarked, reqNext, reqStatus, saveOrder>>
standaloneVars == <<namingVars, cleanupVars, raceVars>>
extraVars == <<serverVars, standaloneVars>>
updateLocals == <<existingPhotos, existingPhotosToKeep, imagesToDelete, upc, itemPc,
                  targetId, settledAs, deleted, lookedUp, report, ustatus, saved>>
updateVars == <<photos, existingPhotos, existingPhotosToKeep, imagesToDelete, upc,
                itemPc, targetId, settledAs, deleted, lookedUp, report, ustatus, saved>>

-----------------------------------------------------------------------------
(* JavaScript values *)

\* null / undefined where a string is expected
Null == <<"#null">>
\* a value whose typeof is not 'string'
NonString == <<"#object">>
\* String(undefined), what endsWith(undefined) compares with
JSUndefined == <<"#undefined">>

Falsy(s) == s = Null \/ s = <<>>
IsString(s) == s # Null /\ s # NonString

-----------------------------------------------------------------------------
(* String primitives *)

StartsWith(s, t) == Len(t) <= Len(s) /\ SubSeq(s, 1, Len(t)) = t

EndsWith(s, t) == Len(t) <= Len(s) /\ SubSeq(s, Len(s) - Len(t) + 1, Len(s)) = t

Includes(s, t) == \E i \in 1..(Len(s) - Len(t) + 1) : SubSeq(s, i, i + Len(t) - 1) = t

\* index of the first "/" of s, 0 when there is none
FirstSlash(s) ==
    IF \E i \in 1..Len(s) : s[i] = "/"
    THEN CHOOSE i \in 1..Len(s) : s[i] = "/" /\ \A j \in 1..(i - 1) : s[j] # "/"
    ELSE 0

RECURSIVE Split(_)
\* s.split('/')
Split(s) ==
    IF FirstSlash(s) = 0 THEN <<s>>
    ELSE <<SubSeq(s, 1, FirstSlash(s) - 1)>> \o Split(SubSeq(s, FirstSlash(s) + 1, Len(s)))

\* parts.filter(p => p)
NonEmptyParts(parts) == SelectSeq(parts, LAMBDA p : p # <<>>)

RECURSIVE Join(_)
\* parts.join('/')
Join(parts) ==
    IF parts = <<>> THEN <<>>
    ELSE IF Len(parts) = 1 THEN parts[1]
    ELSE parts[1] \o <<"/">> \o Join(Tail(parts))

\* s.split('/').pop()
LastSegment(s) == Split(s)[Len(Split(s))]

\* tokens that stand for a scheme and host
Origins == {"h", "k"}

\* new URL(s) succeeds: s is an absolute URL
IsAbsoluteUrl(s) == IsString(s) /\ Len(s) >= 1 /\ s[1] \in Origins

\* new URL(s).pathname
Pathname(s) ==
    IF FirstSlash(Tail(s)) = 0 THEN <<"/">>
    ELSE SubSeq(Tail(s), FirstSlash(Tail(s)), Len(Tail(s)))

-----------------------------------------------------------------------------
(* utils/imagekitUpload.js : extractImageKitFilePath *)

\* faulty variant: a string that is no URL is taken for a path as it is
ExtractImageKitFilePathNoCheck(url) ==
    IF Falsy(url) \/ ~IsString(url) THEN Null
    ELSE IF IsAbsoluteUrl(url)
         THEN IF Len(NonEmptyParts(Split(Pathname(url)))) > 0
              THEN <<"/">> \o Join(NonEmptyParts(Split(Pathname(url))))
              ELSE Null
         ELSE url

ExtractImageKitFilePath(url) ==
    IF Falsy(url) \/ ~IsString(url) THEN Null
    ELSE IF IsAbsoluteUrl(url)
         THEN IF Len(NonEmptyParts(Split(Pathname(url)))) > 0
              THEN <<"/">> \o Join(NonEmptyParts(Split(Pathname(url))))
              ELSE Null
         ELSE IF StartsWith(url, <<"/">>) THEN url ELSE Null

\* pathParts[pathParts.length - 1] of filePath.split('/').filter(p => p)
FileNameOf(path) ==
    IF Len(NonEmptyParts(Split(path))) = 0 THEN JSUndefined
    ELSE NonEmptyParts(Split(path))[Len(NonEmptyParts(Split(path)))]

\* pathParts.length > 1 ? '/' + pathParts.slice(0, -1).join('/') : '/'
FolderPathOf(path) ==
    IF Len(NonEmptyParts(Split(path))) > 1
    THEN <<"/">> \o Join(SubSeq(NonEmptyParts(Split(path)), 1, Len(NonEmptyParts(Split(path))) - 1))
    ELSE <<"/">>

-----------------------------------------------------------------------------
(* utils/imagekitUpload.js : getImageKitFileId, the matching rules *)

\* files.find(...): the least index among the files that satisfy the test,
\* 0 for undefined
FirstIndex(hits) ==
    IF hits = {} THEN 0 ELSE CHOOSE i \in hits : \A j \in hits : i <= j

\* match && match.fileId ? match.fileId : (go on)
IdAt(files, i) == IF i # 0 /\ ~Falsy(files[i].fileId) THEN files[i].fileId ELSE Null

ExactPathMatch(f, path) == f.filePath = path

UrlMatch(f, url) ==
    f.url = url \/ (~Falsy(f.url) /\ Includes(url, LastSegment(f.url)))

FilenameMatch(f, name) ==
    f.name = name \/ (~Falsy(f.filePath) /\ EndsWith(f.filePath, name))

PathHits(files, path) == { i \in 1..Len(files) : ExactPathMatch(files[i], path) }
UrlHits(files, url) == { i \in 1..Len(files) : UrlMatch(files[i], url) }
FilenameHits(files, name) == { i \in 1..Len(files) : FilenameMatch(files[i], name) }

\* Method 1: three finds in turn over the folder listing
Method1Match(files, url, path, name) ==
    IF Len(files) = 0 THEN Null
    ELSE IF IdAt(files, FirstIndex(PathHits(files, path))) # Null
         THEN IdAt(files, FirstIndex(PathHits(files, path)))
    ELSE IF IdAt(files, FirstIndex(UrlHits(files, url))) # Null
         THEN IdAt(files, FirstIndex(UrlHits(files, url)))
    ELSE IdAt(files, FirstIndex(FilenameHits(files, name)))

\* Method 2: one filter over all files, then matchingFiles[0]
Method2Filter(f, url, path, name) ==
    \/ f.filePath = path
    \/ f.url = url
    \/ f.name = name
    \/ (~Falsy(f.filePath) /\ EndsWith(f.filePath, name))
    \/ (~Falsy(f.url) /\ Includes(url, LastSegment(f.url)))

Method2Match(allFiles, url, path, name) ==
    IdAt(allFiles,
         FirstIndex({ i \in 1..Len(allFiles) : Method2Filter(allFiles[i], url, path, name) }))

-----------------------------------------------------------------------------
(* The remote asset host (config/imagekit.js, the SDK client) *)

\* bound: the number of assets on the host when a lookup starts
MaxFiles == 2

\* an asset record as listFiles returns it
Asset(id, folder, name) ==
    [fileId |-> <<id>>, name |-> name,
     filePath |-> folder \o <<"/">> \o name,
     url |-> <<"h">> \o folder \o <<"/">> \o name]

AssetRecords ==
    { Asset("1", <<"/", "f">>, <<"a">>),
      Asset("2", <<"/", "f">>, <<"b", "a">>),
      Asset("3", <<"/", "g">>, <<"a">>) }

\* the host's contents: assets with distinct identifiers, in list order
HostStates ==
    { h \in UNION { [1..n -> AssetRecords] : n \in 0..MaxFiles } :
        \A i, j \in 1..Len(h) : i # j => h[i].fileId # h[j].fileId }

\* the wildcard of a listFiles call without a path
AllFolders == <<"*">>

\* faulty variant: the lookup calls a destructive method of the client
WrongClientOp(path) == [op |-> "deleteFile", arg |-> path]

\* await imagekit.listFiles({ path, limit: 1000 })
ListFilesOp(path) == [op |-> "listFiles", arg |-> path]

\* await imagekit.deleteFile(fileId)
DeleteFileOp(fileId) == [op |-> "deleteFile", arg |-> fileId]

\* what a remote call leaves on the host
RemoteEffect(h, call) ==
    IF call.op = "deleteFile"
    THEN SelectSeq(h, LAMBDA f : f.fileId # call.arg)
    ELSE h

NotAsked == [state |-> "none", files |-> <<>>]
ListError == [state |-> "error", files |-> <<>>]
Listing(files) == [state |-> "ok", files |-> files]

\* answers to listFiles({path}): an error, or assets of that folder in list
\* order; a listing may lack assets of the folder, as the call asks for one
\* page only.  Of the answer formats of lines 313-322 the array is the one
\* modelled.
FolderResponses(h, path) ==
    {ListError} \cup
    { Listing(SelectSeq(h, LAMBDA f : f.fileId \in ids)) :
        ids \in SUBSET { h[i].fileId : i \in { n \in 1..Len(h) :
                                                 FolderPathOf(h[n].filePath) = path } } }

\* answers to listFiles({}): an error, or every asset of the host
GlobalResponses(h) == {ListError, Listing(h)}

-----------------------------------------------------------------------------
(* utils/imagekitUpload.js : getImageKitFileId, the call *)

\* the arguments tried
ImageUrls ==
    { <<"h", "/", "f", "/", "a">>,             \* URL of asset 1
      <<"h", "/", "f", "/", "b", "a">>,        \* URL of asset 2
      <<"h", "/", "c", "/", "f", "/", "b", "a">>, \* URL with an account segment
      <<"h", "/", "g", "/", "b">>,             \* URL of no asset
      <<"/", "f", "/", "a">>,                  \* bare path
      <<"/", "f", "/", "/", "b", "a">>,        \* bare path, not normalised
      <<"/">>,                                 \* bare root
      <<"h">>,                                 \* URL without a path
      <<"f", "/", "a">>,                       \* relative: no URL, no bare path
      <<>>,                                    \* empty string
      Null, NonString }

\* faulty variant: a failed listing escapes the function
ListFailureUncaught == [outcome |-> "threw", result |-> Null]

\* catch (allError) { warn }, then `return null` (lines 401-406)
ListFailureOutcome == [outcome |-> "returned", result |-> Null]

\* faulty variant: the error of Method 1 ends the lookup
Method1ErrorAborts == "done"

\* catch (pathError) { warn }: the lookup goes on with Method 2 (lines 359-363)
Method1ErrorNext == "method2"

Return(v) ==
    /\ result' = v
    /\ outcome' = "returned"
    /\ rpc' = "done"

\* lines 278-310: the checks, the path parts and the first listFiles call
ResolveStart ==
    /\ rpc = "start"
    /\ IF Falsy(imageUrl) \/ ~IsString(imageUrl)
       THEN /\ Return(Null)
            /\ UNCHANGED <<filePath, fileName, folderPath, remoteOps>>
       ELSE IF Falsy(ExtractImageKitFilePath(imageUrl))
       THEN /\ Return(Null)
            /\ UNCHANGED <<filePath, fileName, folderPath, remoteOps>>
       ELSE /\ filePath' = ExtractImageKitFilePath(imageUrl)
            /\ fileName' = FileNameOf(filePath')
            /\ folderPath' = FolderPathOf(filePath')
            /\ remoteOps' = Append(remoteOps, ListFilesOp(folderPath'))
            /\ rpc' = "method1"
            /\ UNCHANGED <<result, outcome>>
    /\ UNCHANGED <<host, imageUrl, folderResp, globalResp, endpoint, extraVars, updateVars, logoVars>>

\* lines 307-367: the folder listing arrives; match, or go on to Method 2
Method1Returns ==
    /\ rpc = "method1"
    /\ \E resp \in FolderResponses(host, folderPath) :
        /\ folderResp' = resp
        /\ IF resp.state = "ok"
              /\ Method1Match(resp.files, imageUrl, filePath, fileName) # Null
           THEN /\ Return(Method1Match(resp.files, imageUrl, filePath, fileName))
                /\ UNCHANGED remoteOps
           ELSE IF resp.state = "error" /\ Method1ErrorNext = "done"
           THEN /\ Return(Null)
                /\ UNCHANGED remoteOps
           ELSE /\ rpc' = "method2"
                /\ remoteOps' = Append(remoteOps, ListFilesOp(AllFolders))
                /\ UNCHANGED <<result, outcome>>
    /\ host' = RemoteEffect(host, remoteOps[Len(remoteOps)])
    /\ UNCHANGED <<imageUrl, filePath, fileName, folderPath, globalResp,
                   endpoint, extraVars, updateVars, logoVars>>

\* lines 365-406: the global listing arrives; first file of the filter, or null
Method2Returns ==
    /\ rpc = "method2"
    /\ \E resp \in GlobalResponses(host) :
        /\ globalResp' = resp
        /\ IF resp.state = "ok"
           THEN Return(Method2Match(resp.files, imageUrl, filePath, fileName))
           ELSE /\ result' = ListFailureOutcome.result
                /\ outcome' = ListFailureOutcome.outcome
                /\ rpc' = "done"
    /\ host' = RemoteEffect(host, remoteOps[Len(remoteOps)])
    /\ UNCHANGED <<imageUrl, filePath, fileName, folderPath, folderResp, remoteOps,
                   endpoint, extraVars, updateVars, logoVars>>

-----------------------------------------------------------------------------
(* utils/imagekitUpload.js : isImageKitUrl, deleteImageFromImageKit *)

\* 'https://ik.imagekit.io/': the provider's origin and the slash after it
ProviderPrefix == <<"k", "/">>

\* faulty variant: the check of the configured endpoint is left out
IsImageKitUrlNoEndpointCheck(url) ==
    IF Falsy(url) \/ ~IsString(url) THEN FALSE
    ELSE Includes(url, endpoint) \/ StartsWith(url, ProviderPrefix)

\* s.toLowerCase(), over the letters the model has in both cases
LowerCase(s) == [i \in 1..Len(s) |-> IF s[i] = "H" THEN "h" ELSE s[i]]

\* faulty variant: the endpoint is compared without regard to letter case
IsImageKitUrlIgnoreCase(url) ==
    IF Falsy(url) \/ ~IsString(url) THEN FALSE
    ELSE IF Falsy(endpoint) THEN FALSE
    ELSE Includes(LowerCase(url), LowerCase(endpoint)) \/ StartsWith(url, ProviderPrefix)

\* lines 511-516
IsImageKitUrl(url) ==
    IF Falsy(url) \/ ~IsString(url) THEN FALSE
    ELSE IF Falsy(endpoint) THEN FALSE
    ELSE Includes(url, endpoint) \/ StartsWith(url, ProviderPrefix)

\* faulty variant: a hosted URL is handed to deleteFile without a lookup
DeleteRouteNoLookup(fileIdOrUrl) ==
    IF Falsy(fileIdOrUrl) THEN "none" ELSE "deleteFile"

\* lines 426-458: what deleteImageFromImageKit does before its first await:
\* nothing for an empty argument, a lookup for a URL, else deleteFile(arg)
DeleteRoute(fileIdOrUrl) ==
    IF Falsy(fileIdOrUrl) THEN "none"
    ELSE IF IsImageKitUrl(fileIdOrUrl) THEN "lookup"
    ELSE "deleteFile"

\* the identifiers deleteImageFromImageKit may call deleteFile with (Null: it
\* returns false without a call).  A URL argument is looked up first; the
\* lookup can answer any identifier of the host or null.
DeleteTargets(fileIdOrUrl) ==
    IF DeleteRoute(fileIdOrUrl) = "none" THEN {Null}
    ELSE IF DeleteRoute(fileIdOrUrl) = "deleteFile" THEN {fileIdOrUrl}
    ELSE {Null} \cup { host[i].fileId : i \in 1..Len(host) }

\* faulty variant: the catch answers true as well
DeleteErrorReportsTrue(settled) == [threw |-> FALSE, value |-> TRUE]

\* faulty variant: no catch, the rejection of deleteFile reaches the caller
DeleteErrorEscapes(settled) == [threw |-> (settled # "ok"), value |-> (settled = "ok")]

\* lines 462-475: deleteFile settled; the catch turns a rejection into false
DeleteImageResult(settled) == [threw |-> FALSE, value |-> (settled = "ok")]

-----------------------------------------------------------------------------
(* controllers/logoController.js *)

\* bound: requests handled in one process lifetime
MaxRequests == 3
\* bound: requests in flight at the same time
MaxInFlight == 2

Requests == 1..MaxRequests

InFlight == { r \in Requests : pc[r] \notin {"new", "done"} }

\* the next request to arrive
Arrives(r) ==
    /\ pc[r] = "new"
    /\ \A q \in 1..(r - 1) : pc[q] # "new"
    /\ Cardinality(InFlight) < MaxInFlight

\* the asset the host creates for the upload of request n into '/app-assets'
LogoAsset(n) == Asset(ToString(n), <<"/", "l">>, <<"p", ToString(n)>>)

\* the call issued by request r
By(r, call) == [op |-> call.op, arg |-> call.arg, by |-> r]

\* await imagekit.upload(uploadParams)
UploadOp == [op |-> "upload", arg |-> <<"/", "l">>]

Respond(r, code) ==
    /\ status' = [status EXCEPT ![r] = code]
    /\ pc' = [pc EXCEPT ![r] = "done"]

\* faulty variant: the reference is replaced only when the old logo was deleted
TrackOnlyIfDeleted(r, up) ==
    /\ currentLogoUrl' = IF remoteResult[r] = "error" THEN currentLogoUrl ELSE up.url
    /\ currentLogoFileId' =
          IF remoteResult[r] = "error" THEN currentLogoFileId ELSE up.fileId
    /\ Respond(r, 200)

\* faulty variant: 200 is sent and the reference is left as it was
RespondWithoutTracking(r, up) ==
    /\ UNCHANGED <<currentLogoUrl, currentLogoFileId>>
    /\ Respond(r, 200)

\* faulty variant: the reference is replaced only when it still is the one the
\* request read before its delete (a compare-and-swap)
TrackCompareAndSwap(r, up) ==
    /\ currentLogoUrl' = IF currentLogoFileId = oldLogo[r] THEN up.url ELSE currentLogoUrl
    /\ currentLogoFileId' =
          IF currentLogoFileId = oldLogo[r] THEN up.fileId ELSE currentLogoFileId
    /\ Respond(r, 200)

\* lines 101-118: the reference is set and 200 is sent
TrackAndRespond(r, up) ==
    /\ currentLogoUrl' = up.url
    /\ currentLogoFileId' = up.fileId
    /\ Respond(r, 200)

\* faulty variant: the old logo is left alone
NoOldLogo(fileId, url) == FALSE

\* line 91: if (currentLogoFileId && currentLogoUrl)
HasOldLogo(fileId, url) == ~Falsy(fileId) /\ ~Falsy(url)

\* lines 30-88: validation, then the upload is issued
UploadLogoBegin(r) ==
    /\ Arrives(r)
    /\ kind' = [kind EXCEPT ![r] = "uploadLogo"]
    /\ \E hasImage \in BOOLEAN :
        IF ~hasImage
        THEN /\ Respond(r, 400)
             /\ UNCHANGED <<remoteOps, overlapped>>
        ELSE /\ remoteOps' = Append(remoteOps, By(r, UploadOp))
             /\ pc' = [pc EXCEPT ![r] = "awaitUpload"]
             /\ overlapped' = (overlapped \/ InFlight # {})
             /\ UNCHANGED status
    /\ UNCHANGED <<host, endpoint, extraVars, updateVars, resolveVars, currentLogoUrl, currentLogoFileId,
                   uploadResult, remoteResult, oldLogo, deleteFailed>>

\* the host settles imagekit.upload: a new asset, or UploadError
HostUpload(r) ==
    /\ pc[r] = "awaitUpload"
    /\ \/ /\ host' = Append(host, LogoAsset(r))
          /\ remoteResult' = [remoteResult EXCEPT ![r] = "ok"]
          /\ uploadResult' = [uploadResult EXCEPT ![r] = LogoAsset(r)]
       \/ /\ remoteResult' = [remoteResult EXCEPT ![r] = "error"]
          /\ UNCHANGED <<host, uploadResult>>
    /\ pc' = [pc EXCEPT ![r] = "uploadSettled"]
    /\ UNCHANGED <<remoteOps, endpoint, extraVars, updateVars, resolveVars, currentLogoUrl, currentLogoFileId,
                   kind, status, oldLogo, overlapped, deleteFailed>>

\* faulty variant: the old logo is deleted whether or not the upload succeeded
UploadLogoAfterUploadDeletesFirst(r) ==
    /\ pc[r] = "uploadSettled"
    /\ IF HasOldLogo(currentLogoFileId, currentLogoUrl)
       THEN /\ oldLogo' = [oldLogo EXCEPT ![r] = currentLogoFileId]
            /\ remoteOps' = Append(remoteOps, By(r, DeleteFileOp(currentLogoFileId)))
            /\ remoteResult' = [remoteResult EXCEPT ![r] = "pending"]
            /\ pc' = [pc EXCEPT ![r] = "awaitDelete"]
            /\ UNCHANGED <<currentLogoUrl, currentLogoFileId, status>>
       ELSE IF remoteResult[r] = "error"
       THEN /\ Respond(r, 500)
            /\ UNCHANGED <<remoteOps, currentLogoUrl, currentLogoFileId, oldLogo,
                           remoteResult>>
       ELSE /\ TrackAndRespond(r, uploadResult[r])
            /\ UNCHANGED <<remoteOps, remoteResult, oldLogo>>
    /\ UNCHANGED <<host, endpoint, extraVars, updateVars, resolveVars, kind, uploadResult, overlapped,
                   deleteFailed>>

\* lines 90-127: the upload settled; delete the old logo if one is tracked
UploadLogoAfterUpload(r) ==
    /\ pc[r] = "uploadSettled"
    /\ IF remoteResult[r] = "error"
       THEN /\ Respond(r, 500)
            /\ UNCHANGED <<remoteOps, currentLogoUrl, currentLogoFileId, oldLogo,
                           remoteResult>>
       ELSE IF HasOldLogo(currentLogoFileId, currentLogoUrl)
       THEN /\ oldLogo' = [oldLogo EXCEPT ![r] = currentLogoFileId]
            /\ \E target \in DeleteTargets(currentLogoFileId) :
                IF target = Null
                THEN /\ TrackAndRespond(r, uploadResult[r])
                     /\ UNCHANGED <<remoteOps, remoteResult>>
                ELSE /\ remoteOps' = Append(remoteOps, By(r, DeleteFileOp(target)))
                     /\ remoteResult' = [remoteResult EXCEPT ![r] = "pending"]
                     /\ pc' = [pc EXCEPT ![r] = "awaitDelete"]
                     /\ UNCHANGED <<currentLogoUrl, currentLogoFileId, status>>
       ELSE /\ TrackAndRespond(r, uploadResult[r])
            /\ UNCHANGED <<remoteOps, remoteResult, oldLogo>>
    /\ UNCHANGED <<host, endpoint, extraVars, updateVars, resolveVars, kind, uploadResult, overlapped,
                   deleteFailed>>

\* the call of request r that is in flight
PendingCall(r) ==
    LET mine == SelectSeq(remoteOps, LAMBDA c : c.by = r) IN mine[Len(mine)]

OnHost(fileId) == \E i \in 1..Len(host) : host[i].fileId = fileId

\* the host settles imagekit.deleteFile: done, or DeleteError (always for an
\* identifier the host does not know)
HostDelete(r) ==
    /\ pc[r] = "awaitDelete"
    /\ \/ /\ OnHost(PendingCall(r).arg)
          /\ host' = RemoteEffect(host, PendingCall(r))
          /\ remoteResult' = [remoteResult EXCEPT ![r] = "ok"]
          /\ UNCHANGED deleteFailed
       \/ /\ remoteResult' = [remoteResult EXCEPT ![r] = "error"]
          /\ deleteFailed' = TRUE
          /\ UNCHANGED host
    /\ pc' = [pc EXCEPT ![r] = "deleteSettled"]
    /\ UNCHANGED <<remoteOps, endpoint, extraVars, updateVars, resolveVars, currentLogoUrl, currentLogoFileId,
                   kind, uploadResult, status, oldLogo, overlapped>>

\* faulty variant: a rejected deleteFile is tried a second time
UploadLogoAfterDeleteRetrying(r) ==
    /\ pc[r] = "deleteSettled"
    /\ kind[r] = "uploadLogo"
    /\ IF remoteResult[r] = "error"
          /\ Len(SelectSeq(remoteOps, LAMBDA c : c.by = r /\ c.op = "deleteFile")) < 2
       THEN /\ remoteOps' = Append(remoteOps, By(r, DeleteFileOp(oldLogo[r])))
            /\ remoteResult' = [remoteResult EXCEPT ![r] = "pending"]
            /\ pc' = [pc EXCEPT ![r] = "awaitDelete"]
            /\ UNCHANGED <<currentLogoUrl, currentLogoFileId, status>>
       ELSE /\ TrackAndRespond(r, uploadResult[r])
            /\ UNCHANGED <<remoteOps, remoteResult>>
    /\ UNCHANGED <<host, endpoint, extraVars, updateVars, resolveVars, kind, uploadResult,
                   oldLogo, overlapped, deleteFailed>>

\* lines 92-118: deleteImageFromImageKit came back; the reference is replaced
UploadLogoAfterDelete(r) ==
    /\ pc[r] = "deleteSettled"
    /\ kind[r] = "uploadLogo"
    /\ TrackAndRespond(r, uploadResult[r])
    /\ UNCHANGED <<host, remoteOps, endpoint, extraVars, updateVars, resolveVars, kind, uploadResult,
                   remoteResult, oldLogo, overlapped, deleteFailed>>

\* lines 174-184: 404 without a tracked logo, else the delete is issued
DeleteLogoBegin(r) ==
    /\ Arrives(r)
    /\ kind' = [kind EXCEPT ![r] = "deleteLogo"]
    /\ IF Falsy(currentLogoFileId) \/ Falsy(currentLogoUrl)
       THEN /\ Respond(r, 404)
            /\ UNCHANGED <<remoteOps, remoteResult, overlapped, currentLogoUrl,
                           currentLogoFileId>>
       ELSE \E target \in DeleteTargets(currentLogoFileId) :
            IF target = Null
            THEN /\ currentLogoUrl' = Null
                 /\ currentLogoFileId' = Null
                 /\ Respond(r, 200)
                 /\ UNCHANGED <<remoteOps, remoteResult, overlapped>>
            ELSE /\ remoteOps' = Append(remoteOps, By(r, DeleteFileOp(target)))
                 /\ remoteResult' = [remoteResult EXCEPT ![r] = "pending"]
                 /\ pc' = [pc EXCEPT ![r] = "awaitDelete"]
                 /\ overlapped' = (overlapped \/ InFlight # {})
                 /\ UNCHANGED <<status, currentLogoUrl, currentLogoFileId>>
    /\ UNCHANGED <<host, endpoint, extraVars, updateVars, resolveVars, uploadResult, oldLogo, deleteFailed>>

\* faulty variant: deleteLogo answers 200 but keeps the reference
DeleteLogoAfterDeleteKeepsReference(r) ==
    /\ pc[r] = "deleteSettled"
    /\ kind[r] = "deleteLogo"
    /\ Respond(r, 200)
    /\ UNCHANGED <<host, remoteOps, endpoint, extraVars, updateVars, resolveVars, kind,
                   uploadResult, remoteResult, oldLogo, overlapped, deleteFailed,
                   currentLogoUrl, currentLogoFileId>>

\* lines 184-205: deleteImageFromImageKit came back: clear and 200, or the
\* catch branch with 500 had it thrown
DeleteLogoAfterDelete(r) ==
    /\ pc[r] = "deleteSettled"
    /\ kind[r] = "deleteLogo"
    /\ IF DeleteImageResult(remoteResult[r]).threw
       THEN /\ Respond(r, 500)
            /\ UNCHANGED <<currentLogoUrl, currentLogoFileId>>
       ELSE /\ currentLogoUrl' = Null
            /\ currentLogoFileId' = Null
            /\ Respond(r, 200)
    /\ UNCHANGED <<host, remoteOps, endpoint, extraVars, updateVars, resolveVars, kind, uploadResult,
                   remoteResult, oldLogo, overlapped, deleteFailed>>

-----------------------------------------------------------------------------
(* controllers/productController.js : updateProduct, one request *)

\* bound: the photos of the product when the request arrives
MaxPhotos == 2

\* the photo URLs tried
PhotoUrlList ==
    << <<"h", "/", "f", "/", "a">>,          \* on the endpoint: asset 1
       <<"h", "/", "f", "/", "b", "a">>,     \* on the endpoint: asset 2
       <<"k", "/", "g", "/", "a">>,          \* on the provider's domain: asset 3
       <<"/", "u", "/", "a">>,               \* a local path, no hosted image
       <<"H", "/", "f", "/", "a">> >>        \* the endpoint in another letter case

DistinctPicks(n) ==
    { f \in [1..n -> 1..Len(PhotoUrlList)] : \A i, j \in 1..n : i # j => f[i] # f[j] }

\* product.photos: up to MaxPhotos distinct URLs
PhotoSets ==
    UNION { { [i \in 1..n |-> PhotoUrlList[f[i]]] : f \in DistinctPicks(n) } :
              n \in 0..MaxPhotos }

InSeq(u, seq) == \E i \in 1..Len(seq) : seq[i] = u

\* the existingPhotos a request may send: the photos left after removals
KeepChoices(current) ==
    { SelectSeq(current, LAMBDA u : u \in keep) :
        keep \in SUBSET { current[i] : i \in 1..Len(current) } }

\* the asset a photo URL was returned for at upload: the one stored under the
\* URL's path, Null for a URL that is no asset's
RefAsset(u) ==
    IF IsAbsoluteUrl(u)
          /\ \E a \in AssetRecords : a.filePath = ExtractImageKitFilePath(u)
    THEN (CHOOSE a \in AssetRecords : a.filePath = ExtractImageKitFilePath(u)).fileId
    ELSE Null

\* elements of current whose URL is not in desired
ToRemove(current, desired) == SelectSeq(current, LAMBDA u : ~InSeq(u, desired))

\* faulty variant: every removed photo is marked, hosted or not
ImagesToDeleteUnfiltered(existing, keep) ==
    SelectSeq(existing, LAMBDA u : ~InSeq(u, keep))

\* existingPhotos.forEach: isImageKitUrl(existing) && !photosToKeep.has(existing)
ImagesToDelete(existing, keep) ==
    SelectSeq(existing, LAMBDA u : IsImageKitUrl(u) /\ ~InSeq(u, keep))

Items == 1..MaxPhotos

\* lookedUp before getImageKitFileId was called for the image
NotLookedUp == <<"#none">>
\* lookedUp when getImageKitFileId threw
LookupThrew == <<"#threw">>

NoReport == [skippedNotHosted |-> 0, skippedUnresolved |-> 0, deleted |-> 0, failed |-> 0]

\* faulty variant: a lookup without result is raised as an error to the caller
LookupMissThrows == [threw |-> TRUE, value |-> FALSE]

\* lines 439-454: if (!fileId) { ... return false; }
LookupMissResult == [threw |-> FALSE, value |-> FALSE]

\* faulty variant: all images are handled at once
CanStartInParallel(i) == TRUE

\* deleteImageFiles: the images are handled in sequence, one after the other
CanStart(i) == \A j \in 1..(i - 1) : itemPc[j] = "done"

\* deleteImageFromImageKit came back for image i with res: the outcome is
\* counted under field when it is false; an exception ends the request
FinishItem(i, res, field) ==
    /\ itemPc' = [itemPc EXCEPT ![i] = "done"]
    /\ deleted' = [deleted EXCEPT ![i] =
          IF res.threw THEN "threw" ELSE IF res.value THEN "true" ELSE "false"]
    /\ report' =
          IF res.threw THEN report
          ELSE IF res.value THEN [report EXCEPT !.deleted = @ + 1]
          ELSE IF field = "skippedUnresolved"
               THEN [report EXCEPT !.skippedUnresolved = @ + 1]
          ELSE [report EXCEPT !.failed = @ + 1]
    /\ IF res.threw
       THEN upc' = "done" /\ ustatus' = 500
       ELSE UNCHANGED <<upc, ustatus>>

\* the request arrives: the photos to keep are compared with the photos of the
\* product, and the new photo list is written
UpdateProductBegin ==
    /\ upc = "new"
    /\ \E keep \in KeepChoices(photos) :
        /\ existingPhotosToKeep' = keep
        /\ existingPhotos' = photos
        /\ imagesToDelete' = ImagesToDelete(photos, keep)
        /\ report' = [report EXCEPT !.skippedNotHosted =
                         Len(ToRemove(photos, keep)) - Len(imagesToDelete')]
    /\ upc' = "saving"
    /\ UNCHANGED <<host, remoteOps, endpoint, extraVars, resolveVars, logoVars, photos, itemPc,
                   targetId, settledAs, deleted, lookedUp, ustatus, saved>>

\* the database settles the write: the photo list is stored, or the update fails
SaveSettles ==
    /\ upc = "saving"
    /\ \/ /\ photos' = existingPhotosToKeep
          /\ saved' = TRUE
          /\ upc' = "deleting"
          /\ UNCHANGED ustatus
       \/ /\ ustatus' = 500
          /\ upc' = "done"
          /\ UNCHANGED <<photos, saved>>
    /\ UNCHANGED <<host, remoteOps, endpoint, extraVars, resolveVars, logoVars, existingPhotos,
                   existingPhotosToKeep, imagesToDelete, itemPc, targetId, settledAs,
                   deleted, lookedUp, report>>

\* lines 424-441: deleteImageFromImageKit(imagesToDelete[i]) up to its first await
DeleteImageBegin(i) ==
    /\ upc = "deleting"
    /\ i \in 1..Len(imagesToDelete)
    /\ itemPc[i] = "todo"
    /\ CanStart(i)
    /\ rpc = "idle"
    /\ IF DeleteRoute(imagesToDelete[i]) = "none"
       THEN /\ FinishItem(i, LookupMissResult, "failed")
            /\ UNCHANGED <<remoteOps, resolveVars, targetId>>
       ELSE IF DeleteRoute(imagesToDelete[i]) = "lookup"
       THEN /\ imageUrl' = imagesToDelete[i]
            /\ rpc' = "start"
            /\ filePath' = Null
            /\ fileName' = Null
            /\ folderPath' = Null
            /\ folderResp' = NotAsked
            /\ globalResp' = NotAsked
            /\ result' = Null
            /\ outcome' = "none"
            /\ itemPc' = [itemPc EXCEPT ![i] = "lookup"]
            /\ UNCHANGED <<remoteOps, targetId, deleted, report, upc, ustatus>>
       ELSE /\ remoteOps' = Append(remoteOps, DeleteFileOp(imagesToDelete[i]))
            /\ targetId' = [targetId EXCEPT ![i] = imagesToDelete[i]]
            /\ itemPc' = [itemPc EXCEPT ![i] = "awaitDelete"]
            /\ UNCHANGED <<resolveVars, deleted, report, upc, ustatus>>
    /\ UNCHANGED <<host, endpoint, extraVars, logoVars, photos, existingPhotos,
                   existingPhotosToKeep, imagesToDelete, settledAs, lookedUp, saved>>

\* lines 438-462: getImageKitFileId came back: false without a fileId, else
\* deleteFile is called with it
DeleteImageAfterLookup(i) ==
    /\ itemPc[i] = "lookup"
    /\ rpc = "done"
    /\ rpc' = "idle"
    /\ lookedUp' = [lookedUp EXCEPT ![i] = IF outcome = "threw" THEN LookupThrew ELSE result]
    /\ IF outcome = "threw"
       THEN /\ FinishItem(i, DeleteImageResult("error"), "failed")
            /\ UNCHANGED <<remoteOps, targetId>>
       ELSE IF Falsy(result)
       THEN /\ FinishItem(i, LookupMissResult, "skippedUnresolved")
            /\ UNCHANGED <<remoteOps, targetId>>
       ELSE /\ remoteOps' = Append(remoteOps, DeleteFileOp(result))
            /\ targetId' = [targetId EXCEPT ![i] = result]
            /\ itemPc' = [itemPc EXCEPT ![i] = "awaitDelete"]
            /\ UNCHANGED <<deleted, report, upc, ustatus>>
    /\ UNCHANGED <<host, endpoint, extraVars, logoVars, imageUrl, filePath, fileName, folderPath,
                   folderResp, globalResp, result, outcome, photos, existingPhotos,
                   existingPhotosToKeep, imagesToDelete, settledAs, saved>>

\* the host settles imagekit.deleteFile(targetId[i]): done, or DeleteError (always
\* for an identifier the host does not know)
HostDeleteFile(i) ==
    /\ itemPc[i] = "awaitDelete"
    /\ \/ /\ OnHost(targetId[i])
          /\ host' = RemoteEffect(host, DeleteFileOp(targetId[i]))
          /\ settledAs' = [settledAs EXCEPT ![i] = "ok"]
       \/ /\ settledAs' = [settledAs EXCEPT ![i] = "error"]
          /\ UNCHANGED host
    /\ itemPc' = [itemPc EXCEPT ![i] = "deleteSettled"]
    /\ UNCHANGED <<remoteOps, endpoint, extraVars, resolveVars, logoVars, photos, existingPhotos,
                   existingPhotosToKeep, imagesToDelete, upc, targetId, deleted,
                   lookedUp, report, ustatus, saved>>

\* lines 462-475: deleteFile settled: true, or the catch answers false
DeleteImageAfterDelete(i) ==
    /\ itemPc[i] = "deleteSettled"
    /\ FinishItem(i, DeleteImageResult(settledAs[i]), "failed")
    /\ UNCHANGED <<host, remoteOps, endpoint, extraVars, resolveVars, logoVars, photos,
                   existingPhotos, existingPhotosToKeep, imagesToDelete, targetId,
                   settledAs, lookedUp, saved>>

\* every image was handled: the update is answered
UpdateProductRespond ==
    /\ upc = "deleting"
    /\ \A i \in 1..Len(imagesToDelete) : itemPc[i] = "done"
    /\ ustatus' = 200
    /\ upc' = "done"
    /\ UNCHANGED <<host, remoteOps, endpoint, extraVars, resolveVars, logoVars, photos,
                   existingPhotos, existingPhotosToKeep, imagesToDelete, itemPc,
                   targetId, settledAs, deleted, lookedUp, report, saved>>

\* faulty variant: getLogo answers 200 whatever is tracked
GetLogoAlways200(url) == 200

\* lines 146-151: if (!currentLogoUrl) 404
GetLogoStatus(url) == IF Falsy(url) THEN 404 ELSE 200

\* lines 155-158: data: { url: currentLogoUrl, fileId: currentLogoFileId }
LogoData(url, fileId) == [url |-> url, fileId |-> fileId]

\* lines 144-168: getLogo answers from the module variables, without waiting
GetLogo(r) ==
    /\ Arrives(r)
    /\ kind' = [kind EXCEPT ![r] = "getLogo"]
    /\ Respond(r, GetLogoStatus(currentLogoUrl))
    /\ getBody' = [getBody EXCEPT ![r] =
                     IF GetLogoStatus(currentLogoUrl) = 200
                     THEN LogoData(currentLogoUrl, currentLogoFileId)
                     ELSE Null]
    /\ overlapped' = (overlapped \/ InFlight # {})
    /\ UNCHANGED <<host, remoteOps, endpoint, updateVars, resolveVars, currentLogoUrl,
                   currentLogoFileId, uploadResult, remoteResult, oldLogo, deleteFailed,
                   restarts, arrivedBefore, lostLogo, standaloneVars>>

\* bound: process restarts
MaxRestarts == 1

\* faulty variant: the reference is kept over the restart
RestartKeepsReference ==
    /\ restarts < MaxRestarts
    /\ restarts' = restarts + 1
    /\ pc' = [r \in Requests |-> IF pc[r] = "new" THEN "new" ELSE "done"]
    /\ arrivedBefore' = Cardinality({ r \in Requests : pc[r] # "new" })
    /\ lostLogo' = currentLogoFileId
    /\ UNCHANGED <<host, remoteOps, endpoint, updateVars, resolveVars, kind, uploadResult,
                   remoteResult, status, oldLogo, overlapped, deleteFailed, getBody,
                   currentLogoUrl, currentLogoFileId, standaloneVars>>

\* lines 13-14: the process starts again: the module variables are null, the
\* requests that were in flight are gone and get no answer
Restart ==
    /\ restarts < MaxRestarts
    /\ restarts' = restarts + 1
    /\ currentLogoUrl' = Null
    /\ currentLogoFileId' = Null
    /\ pc' = [r \in Requests |-> IF pc[r] = "new" THEN "new" ELSE "done"]
    /\ arrivedBefore' = Cardinality({ r \in Requests : pc[r] # "new" })
    /\ lostLogo' = currentLogoFileId
    /\ UNCHANGED <<host, remoteOps, endpoint, updateVars, resolveVars, kind, uploadResult,
                   remoteResult, status, oldLogo, overlapped, deleteFailed, getBody,
                   standaloneVars>>

-----------------------------------------------------------------------------
(* controllers/logoController.js and utils/imagekitUpload.js : the file name
   of a logo upload.  Names are sequences of tokens; "." is the dot. *)

AppLogo == <<"app-logo">>
Png == <<"png">>

\* the index of the last dot of a name, 0 when it has none
LastDot(name) ==
    LET dots == { i \in 1..Len(name) : name[i] = "." }
    IN IF dots = {} THEN 0 ELSE CHOOSE i \in dots : \A j \in dots : j <= i

\* line 47: file.originalname.split('.').pop() || 'png'
ExtensionOf(name) ==
    IF SubSeq(name, LastDot(name) + 1, Len(name)) = <<>> THEN Png
    ELSE SubSeq(name, LastDot(name) + 1, Len(name))

\* a data URL 'data:image/<type>;base64,<data>' is <<"data:image/", type, ";base64,", data>>
IsDataUrl(b64) == Len(b64) >= 3 /\ b64[1] = "data:image/" /\ b64[3] = ";base64,"

\* lines 51-56: logoBase64.match(/data:image\/(\w+);base64,/)
DataUrlExtension(b64) == IF IsDataUrl(b64) THEN <<b64[2]>> ELSE Png

\* req.file of a multipart request, none when there is no file
NoFile == Null

\* lines 44-57: Determine filename
FinalFileName(req) ==
    IF req.originalname # NoFile /\ ~Falsy(req.originalname) /\ Falsy(req.fileName)
    THEN AppLogo \o <<".">> \o ExtensionOf(req.originalname)
    ELSE IF ~Falsy(req.logoBase64) /\ Falsy(req.fileName)
    THEN AppLogo \o <<".">> \o DataUrlExtension(req.logoBase64)
    ELSE IF Falsy(req.fileName) THEN AppLogo ELSE req.fileName

\* lines 67-87: the first argument of uploadImageToImageKit: a Buffer for
\* logoBase64, else the multer file
PassesBuffer(req) == ~Falsy(req.logoBase64)

\* cleanupData.js 199-221: originalFileName, the fileName of uploadParams
UploadFileName(req, asked) ==
    IF PassesBuffer(req) THEN asked
    ELSE IF ~Falsy(req.originalname) THEN req.originalname
    ELSE asked

\* the names a browser gives a file, and the bodies a client sends
OriginalNames ==
    { <<"x", ".", "png">>, <<"x", ".", "jpeg">>, <<"a", ".", "b", ".", "png">>,
      <<"x">>, <<"x", ".">> }
Base64Bodies ==
    { <<"data:image/", "jpeg", ";base64,", "AAAA">>,
      <<"data:image/", "png", ";base64,", "AAAA">>, <<"AAAA">> }
FileNames == { <<>>, <<"c", ".", "png">>, <<"d">> }

NameRequests ==
    [fileName : FileNames \cup {Null},
     originalname : OriginalNames \cup {NoFile},
     logoBase64 : Base64Bodies \cup {Null}]

\* lines 31-57: validation, then the name is determined
DetermineFileName ==
    /\ npc = "new"
    /\ IF nameReq.originalname = NoFile /\ Falsy(nameReq.logoBase64)
       THEN /\ npc' = "rejected"
            /\ UNCHANGED finalFileName
       ELSE /\ finalFileName' = FinalFileName(nameReq)
            /\ npc' = "named"
    /\ UNCHANGED <<host, remoteOps, endpoint, updateVars, resolveVars, logoVars,
                   serverVars, raceVars, cleanupVars, nameReq, uploadName>>

\* part_006 59-88 and cleanupData.js 198-224: uploadParams are prepared
PrepareUploadParams ==
    /\ npc = "named"
    /\ uploadName' = UploadFileName(nameReq, finalFileName)
    /\ npc' = "uploaded"
    /\ UNCHANGED <<host, remoteOps, endpoint, updateVars, resolveVars, logoVars,
                   serverVars, raceVars, cleanupVars, nameReq, finalFileName>>

-----------------------------------------------------------------------------
(* controllers/productController.js : two updateProduct requests for the same
   product.  Each request is the handler of the single-request part above:
   it reads the product, marks the photos to delete, uploads its new photo,
   writes the photo list and then deletes the marked images one at a time.
   getImageKitFileId is taken at its intended outcome here, the asset stored
   under the URL's path or null; its other outcomes are those of ResolveSpec. *)

\* the two requests
Updates == {1, 2}

\* the asset the host creates for the photo request u uploads into '/products'
NewAsset(u) == Asset(ToString(10 + u), <<"/", "p">>, <<"n", ToString(u)>>)

\* the upload of a new photo
PhotoUploadOp == [op |-> "upload", arg |-> <<"/", "p">>]

\* the asset of h stored under the path of the URL, Null when there is none
HostedAsset(h, url) ==
    LET at == { i \in 1..Len(h) : h[i].filePath = ExtractImageKitFilePath(url) }
    IN IF at = {} THEN Null ELSE h[CHOOSE i \in at : TRUE].fileId

\* faulty variant: the write changes only what the request changed, in the
\* list as it is at the time of the write
MergedPhotoList(u) ==
    SelectSeq(photos, LAMBDA p : InSeq(p, reqKeep[u]) \/ ~InSeq(p, reqRead[u]))
        \o (IF reqNew[u] = Null THEN <<>> ELSE <<reqNew[u]>>)

\* the photo list the request writes: the photos it keeps, then its new photo
NewPhotoList(u) ==
    reqKeep[u] \o (IF reqNew[u] = Null THEN <<>> ELSE <<reqNew[u]>>)

\* the request arrives: the product is read, the photos to keep are compared
\* with its photos (part_004 52-59), and the upload of a new photo is issued
RaceBegin(u) ==
    /\ reqPc[u] = "new"
    /\ reqRead' = [reqRead EXCEPT ![u] = photos]
    /\ \E keep \in KeepChoices(photos), hasFile \in BOOLEAN :
        /\ reqKeep' = [reqKeep EXCEPT ![u] = keep]
        /\ reqMarked' = [reqMarked EXCEPT ![u] = ImagesToDelete(photos, keep)]
        /\ IF hasFile
           THEN /\ remoteOps' = Append(remoteOps, By(u, PhotoUploadOp))
                /\ reqPc' = [reqPc EXCEPT ![u] = "awaitUpload"]
           ELSE /\ reqPc' = [reqPc EXCEPT ![u] = "saving"]
                /\ UNCHANGED remoteOps
    /\ UNCHANGED <<host, endpoint, photos, updateLocals, resolveVars, logoVars,
                   serverVars, namingVars, cleanupVars, reqNew, reqNext, reqStatus,
                   saveOrder>>

\* the host settles the upload: a new asset, or UploadError and the request
\* fails
RaceHostUpload(u) ==
    /\ reqPc[u] = "awaitUpload"
    /\ \/ /\ host' = Append(host, NewAsset(u))
          /\ reqNew' = [reqNew EXCEPT ![u] = NewAsset(u).url]
          /\ reqPc' = [reqPc EXCEPT ![u] = "saving"]
          /\ UNCHANGED reqStatus
       \/ /\ reqStatus' = [reqStatus EXCEPT ![u] = 500]
          /\ reqPc' = [reqPc EXCEPT ![u] = "done"]
          /\ UNCHANGED <<host, reqNew>>
    /\ UNCHANGED <<remoteOps, endpoint, photos, updateLocals, resolveVars, logoVars,
                   serverVars, namingVars, cleanupVars, reqRead, reqKeep, reqMarked,
                   reqNext, saveOrder>>

\* the database settles the write of the photo list, or the update fails
RaceSave(u) ==
    /\ reqPc[u] = "saving"
    /\ \/ /\ photos' = NewPhotoList(u)
          /\ saveOrder' = Append(saveOrder, u)
          /\ reqPc' = [reqPc EXCEPT ![u] = "deleting"]
          /\ UNCHANGED reqStatus
       \/ /\ reqStatus' = [reqStatus EXCEPT ![u] = 500]
          /\ reqPc' = [reqPc EXCEPT ![u] = "done"]
          /\ UNCHANGED <<photos, saveOrder>>
    /\ UNCHANGED <<host, remoteOps, endpoint, updateLocals, resolveVars, logoVars,
                   serverVars, namingVars, cleanupVars, reqRead, reqKeep, reqNew,
                   reqMarked, reqNext>>

\* cleanupData.js 424-462: deleteImageFromImageKit for the next marked image:
\* the fileId is looked up and deleteFile is called, or the image is skipped
RaceDeleteBegin(u) ==
    /\ reqPc[u] = "deleting"
    /\ reqNext[u] <= Len(reqMarked[u])
    /\ IF HostedAsset(host, reqMarked[u][reqNext[u]]) = Null
       THEN /\ reqNext' = [reqNext EXCEPT ![u] = @ + 1]
            /\ UNCHANGED <<remoteOps, reqPc>>
       ELSE /\ remoteOps' = Append(remoteOps,
                   By(u, DeleteFileOp(HostedAsset(host, reqMarked[u][reqNext[u]]))))
            /\ reqPc' = [reqPc EXCEPT ![u] = "awaitDelete"]
            /\ UNCHANGED reqNext
    /\ UNCHANGED <<host, endpoint, photos, updateLocals, resolveVars, logoVars,
                   serverVars, namingVars, cleanupVars, reqRead, reqKeep, reqNew,
                   reqMarked, reqStatus, saveOrder>>

\* the deleteFile call the request is waiting for
RacePending(u) ==
    LET mine == SelectSeq(remoteOps, LAMBDA c : c.by = u /\ c.op = "deleteFile")
    IN mine[Len(mine)].arg

\* the host settles deleteFile: the asset is gone, or DeleteError when the
\* host does not have it; cleanupData.js 462-475 turns either into a result
RaceHostDelete(u) ==
    /\ reqPc[u] = "awaitDelete"
    /\ host' = SelectSeq(host, LAMBDA f : f.fileId # RacePending(u))
    /\ reqNext' = [reqNext EXCEPT ![u] = @ + 1]
    /\ reqPc' = [reqPc EXCEPT ![u] = "deleting"]
    /\ UNCHANGED <<remoteOps, endpoint, photos, updateLocals, resolveVars, logoVars,
                   serverVars, namingVars, cleanupVars, reqRead, reqKeep, reqNew,
                   reqMarked, reqStatus, saveOrder>>

\* every marked image was handled: the update is answered with success
RaceRespond(u) ==
    /\ reqPc[u] = "deleting"
    /\ reqNext[u] > Len(reqMarked[u])
    /\ reqStatus' = [reqStatus EXCEPT ![u] = 200]
    /\ reqPc' = [reqPc EXCEPT ![u] = "done"]
    /\ UNCHANGED <<host, remoteOps, endpoint, photos, updateLocals, resolveVars,
                   logoVars, serverVars, namingVars, cleanupVars, reqRead, reqKeep,
                   reqNew, reqMarked, reqNext, saveOrder>>

-----------------------------------------------------------------------------
(* scripts/cleanupData.js : cleanupData, with connectDB of config/db.js *)

Step(op, coll) == [op |-> op, coll |-> coll]

\* lines 32-98: the awaits of the try block, in order
CleanupSteps ==
    << Step("connect", "db"),
       Step("count", "Order"), Step("count", "Product"), Step("count", "Cart"),
       Step("count", "Category"), Step("count", "HighlightedProduct"),
       Step("count", "User"), Step("count", "Customer"),
       Step("deleteMany", "Order"), Step("deleteMany", "Product"),
       Step("deleteMany", "Cart"), Step("deleteMany", "Category"),
       Step("deleteMany", "HighlightedProduct"),
       Step("count", "User"), Step("count", "Customer"),
       Step("count", "User"), Step("count", "User"),
       Step("count", "Order"), Step("count", "Product"), Step("count", "Cart"),
       Step("count", "Category"), Step("count", "HighlightedProduct") >>

\* lines 59-81: the collections the script deletes
DeletedCollections == {"Order", "Product", "Cart", "Category", "HighlightedProduct"}

\* the await at cstep resolves
StepSucceeds ==
    /\ cpc = "try"
    /\ cstep <= Len(CleanupSteps)
    /\ connection' = IF CleanupSteps[cstep].op = "connect" THEN "open" ELSE connection
    /\ deletedColls' = IF CleanupSteps[cstep].op = "deleteMany"
                       THEN deletedColls \cup {CleanupSteps[cstep].coll}
                       ELSE deletedColls
    /\ cstep' = cstep + 1
    /\ UNCHANGED <<host, remoteOps, endpoint, updateVars, resolveVars, logoVars,
                   serverVars, raceVars, namingVars, cpc, exitCode, failedAt>>

\* the await at cstep rejects: connectDB exits with 1 itself (db.js 8-11);
\* any other rejection is logged and thrown again (lines 108-110), which
\* leads into the finally block
StepFails ==
    /\ cpc = "try"
    /\ cstep <= Len(CleanupSteps)
    /\ failedAt' = cstep
    /\ IF CleanupSteps[cstep].op = "connect"
       THEN cpc' = "exited" /\ exitCode' = 1
       ELSE cpc' = "finally" /\ UNCHANGED exitCode
    /\ UNCHANGED <<host, remoteOps, endpoint, updateVars, resolveVars, logoVars,
                   serverVars, raceVars, namingVars, cstep, connection, deletedColls>>

\* lines 99-107: the try block ran to its end
TryCompletes ==
    /\ cpc = "try"
    /\ cstep = Len(CleanupSteps) + 1
    /\ cpc' = "finally"
    /\ UNCHANGED <<host, remoteOps, endpoint, updateVars, resolveVars, logoVars,
                   serverVars, raceVars, namingVars, cstep, connection, deletedColls, exitCode,
                   failedAt>>

\* line 113: await mongoose.connection.close(); when it rejects, the
\* rejection leaves cleanupData and reaches the catch of lines 120-123
CloseConnection ==
    /\ cpc = "finally"
    /\ \/ /\ connection' = "closed"
          /\ cpc' = "closed"
          /\ UNCHANGED exitCode
       \/ /\ cpc' = "exited"
          /\ exitCode' = 1
          /\ UNCHANGED connection
    /\ UNCHANGED <<host, remoteOps, endpoint, updateVars, resolveVars, logoVars,
                   serverVars, raceVars, namingVars, cstep, deletedColls, failedAt>>

\* line 115: process.exit(0), the last statement of the finally block
ExitInFinally ==
    /\ cpc = "closed"
    /\ cpc' = "exited"
    /\ exitCode' = 0
    /\ UNCHANGED <<host, remoteOps, endpoint, updateVars, resolveVars, logoVars,
                   serverVars, raceVars, namingVars, cstep, connection, deletedColls, failedAt>>

-----------------------------------------------------------------------------
(* Specifications *)

\* the two requests before they arrive
RaceStart ==
    /\ reqPc = [u \in Updates |-> "new"]
    /\ reqRead = [u \in Updates |-> <<>>]
    /\ reqKeep = [u \in Updates |-> <<>>]
    /\ reqNew = [u \in Updates |-> Null]
    /\ reqMarked = [u \in Updates |-> <<>>]
    /\ reqNext = [u \in Updates |-> 1]
    /\ reqStatus = [u \in Updates |-> 0]
    /\ saveOrder = <<>>

\* no pair of update requests
RaceIdle ==
    /\ reqPc = [u \in Updates |-> "idle"]
    /\ reqRead = [u \in Updates |-> <<>>]
    /\ reqKeep = [u \in Updates |-> <<>>]
    /\ reqNew = [u \in Updates |-> Null]
    /\ reqMarked = [u \in Updates |-> <<>>]
    /\ reqNext = [u \in Updates |-> 1]
    /\ reqStatus = [u \in Updates |-> 0]
    /\ saveOrder = <<>>

\* the script is not run
CleanupIdle ==
    /\ cpc = "idle"
    /\ cstep = 0
    /\ connection = "none"
    /\ deletedColls = {}
    /\ exitCode = Null
    /\ failedAt = 0

\* no upload being named
NamingIdle ==
    /\ nameReq = Null
    /\ finalFileName = Null
    /\ uploadName = Null
    /\ npc = "idle"

\* no getLogo answered and no restart yet
ServerStart ==
    /\ getBody = [r \in Requests |-> Null]
    /\ restarts = 0
    /\ arrivedBefore = 0
    /\ lostLogo = Null

\* the parts of the state a specification about another part leaves alone
ExtraIdle ==
    /\ ServerStart
    /\ NamingIdle
    /\ CleanupIdle
    /\ RaceIdle

vars == <<host, remoteOps, endpoint, updateVars, resolveVars, logoVars, extraVars>>

\* no asset uploaded yet
NoAsset == [fileId |-> Null, name |-> Null, filePath |-> Null, url |-> Null]

\* the logo controller right after the module is loaded
LogoStart ==
    /\ currentLogoUrl = Null
    /\ currentLogoFileId = Null
    /\ kind = [r \in Requests |-> "none"]
    /\ pc = [r \in Requests |-> "new"]
    /\ uploadResult = [r \in Requests |-> NoAsset]
    /\ remoteResult = [r \in Requests |-> "none"]
    /\ status = [r \in Requests |-> 0]
    /\ oldLogo = [r \in Requests |-> Null]
    /\ overlapped = FALSE
    /\ deleteFailed = FALSE

\* no getImageKitFileId call under way
ResolveIdle ==
    /\ imageUrl = Null
    /\ rpc = "idle"
    /\ filePath = Null
    /\ fileName = Null
    /\ folderPath = Null
    /\ folderResp = NotAsked
    /\ globalResp = NotAsked
    /\ result = Null
    /\ outcome = "none"

\* the per-image state of updateProduct before any image was handled
NoItems ==
    /\ itemPc = [i \in Items |-> "todo"]
    /\ targetId = [i \in Items |-> Null]
    /\ settledAs = [i \in Items |-> "none"]
    /\ deleted = [i \in Items |-> "none"]
    /\ lookedUp = [i \in Items |-> NotLookedUp]
    /\ report = NoReport
    /\ ustatus = 0
    /\ saved = FALSE

\* no updateProduct request
UpdateIdle ==
    /\ photos = <<>>
    /\ existingPhotos = <<>>
    /\ existingPhotosToKeep = <<>>
    /\ imagesToDelete = <<>>
    /\ upc = "idle"
    /\ NoItems

\* the logo endpoints of one server process
Init ==
    /\ host = <<>>
    /\ remoteOps = <<>>
    /\ endpoint \in {Null, <<"h">>}
    /\ LogoStart
    /\ ResolveIdle
    /\ UpdateIdle
    /\ ExtraIdle

Next ==
    \E r \in Requests :
        \/ UploadLogoBegin(r)
        \/ HostUpload(r)
        \/ UploadLogoAfterUpload(r)
        \/ HostDelete(r)
        \/ UploadLogoAfterDelete(r)
        \/ DeleteLogoBegin(r)
        \/ DeleteLogoAfterDelete(r)

Spec == Init /\ [][Next]_vars

\* the logo endpoints with getLogo, over restarts of the process
ServerNext ==
    \/ Next
    \/ \E r \in Requests : GetLogo(r)
    \/ Restart

ServerSpec == Init /\ [][ServerNext]_vars

\* the naming of one logo upload, on any request
NamingInit ==
    /\ host = <<>>
    /\ remoteOps = <<>>
    /\ endpoint = <<"h">>
    /\ LogoStart
    /\ ResolveIdle
    /\ UpdateIdle
    /\ ServerStart
    /\ CleanupIdle
    /\ RaceIdle
    /\ nameReq \in NameRequests
    /\ finalFileName = Null
    /\ uploadName = Null
    /\ npc = "new"

NamingNext ==
    \/ DetermineFileName
    \/ PrepareUploadParams

NamingSpec == NamingInit /\ [][NamingNext]_vars

\* one run of the cleanup script
CleanupInit ==
    /\ host = <<>>
    /\ remoteOps = <<>>
    /\ endpoint \in {Null, <<"h">>}
    /\ LogoStart
    /\ ResolveIdle
    /\ UpdateIdle
    /\ ServerStart
    /\ NamingIdle
    /\ RaceIdle
    /\ cpc = "try"
    /\ cstep = 1
    /\ connection = "none"
    /\ deletedColls = {}
    /\ exitCode = Null
    /\ failedAt = 0

CleanupNext ==
    \/ StepSucceeds
    \/ StepFails
    \/ TryCompletes
    \/ CloseConnection
    \/ ExitInFinally

CleanupSpec == CleanupInit /\ [][CleanupNext]_vars

\* one getImageKitFileId call on any argument against any host
ResolveInit ==
    /\ host \in HostStates
    /\ remoteOps = <<>>
    /\ endpoint = <<"h">>
    /\ LogoStart
    /\ UpdateIdle
    /\ ExtraIdle
    /\ imageUrl \in ImageUrls
    /\ rpc = "start"
    /\ filePath = Null
    /\ fileName = Null
    /\ folderPath = Null
    /\ folderResp = NotAsked
    /\ globalResp = NotAsked
    /\ result = Null
    /\ outcome = "none"

ResolveNext ==
    \/ ResolveStart
    \/ Method1Returns
    \/ Method2Returns

ResolveSpec == ResolveInit /\ [][ResolveNext]_vars

\* the assets the photos of a list refer to
RefAssets(list) == { RefAsset(list[i]) : i \in 1..Len(list) } \ {Null}

\* one updateProduct request on any product, the assets of its photos on the host
UpdateInit ==
    /\ photos \in PhotoSets
    /\ host \in { h \in HostStates :
                    RefAssets(photos) \subseteq { h[i].fileId : i \in 1..Len(h) } }
    /\ remoteOps = <<>>
    /\ endpoint \in {Null, <<>>, <<"h">>}
    /\ LogoStart
    /\ ResolveIdle
    /\ existingPhotos = <<>>
    /\ existingPhotosToKeep = <<>>
    /\ imagesToDelete = <<>>
    /\ upc = "new"
    /\ NoItems
    /\ ExtraIdle

UpdateNext ==
    \/ UpdateProductBegin
    \/ SaveSettles
    \/ \E i \in Items : DeleteImageBegin(i)
    \/ ResolveStart
    \/ Method1Returns
    \/ Method2Returns
    \/ \E i \in Items : DeleteImageAfterLookup(i)
    \/ \E i \in Items : HostDeleteFile(i)
    \/ \E i \in Items : DeleteImageAfterDelete(i)
    \/ UpdateProductRespond

UpdateSpec == UpdateInit /\ [][UpdateNext]_vars

\* the hosted photos of a list
HostedPhotos(list) == SelectSeq(list, LAMBDA p : RefAsset(p) # Null)

\* two update requests for a product whose photos are all on the host, the
\* host holding their assets in the order of the photos
RaceInit ==
    /\ endpoint = <<"h">>
    /\ photos \in { p \in PhotoSets : p # <<>> /\ HostedPhotos(p) = p
                                        /\ \A i \in 1..Len(p) : IsImageKitUrl(p[i]) }
    /\ host = [i \in 1..Len(photos) |->
                 CHOOSE a \in AssetRecords : a.fileId = RefAsset(photos[i])]
    /\ remoteOps = <<>>
    /\ LogoStart
    /\ ResolveIdle
    /\ existingPhotos = <<>>
    /\ existingPhotosToKeep = <<>>
    /\ imagesToDelete = <<>>
    /\ upc = "idle"
    /\ NoItems
    /\ ServerStart
    /\ NamingIdle
    /\ CleanupIdle
    /\ RaceStart

RaceNext ==
    \E u \in Updates :
        \/ RaceBegin(u)
        \/ RaceHostUpload(u)
        \/ RaceSave(u)
        \/ RaceDeleteBegin(u)
        \/ RaceHostDelete(u)
        \/ RaceRespond(u)

RaceSpec == RaceInit /\ [][RaceNext]_vars

-----------------------------------------------------------------------------
(* Properties of the logo controller, checked under Spec *)

\* the deleteFile calls request r issued, as the identifiers they name
DeletesIn(ops, r) ==
    LET mine == SelectSeq(ops, LAMBDA c : c.by = r /\ c.op = "deleteFile")
    IN [i \in 1..Len(mine) |-> mine[i].arg]

\* request r sends its 200 in this step
Completes200(r) == pc[r] # "done" /\ pc'[r] = "done" /\ status'[r] = 200

C1_Step(r) ==
    (kind[r] = "uploadLogo" /\ Completes200(r) /\ oldLogo'[r] # Null)
        => /\ DeletesIn(remoteOps', r) = <<oldLogo'[r]>>
           /\ currentLogoUrl' = uploadResult[r].url
           /\ currentLogoFileId' = uploadResult[r].fileId

\* C1: an uploadLogo that found a logo tracked when its upload was accepted
\* has, when it answers 200, issued exactly one deleteFile, for the fileId it
\* found tracked, and leaves its own new asset (url and fileId) tracked,
\* whether that deleteFile succeeded or was rejected.
C1_OneDeleteThenNewTracked == [][\A r \in Requests : C1_Step(r)]_vars

\* C1 witness: a replacement whose delete of the old logo was rejected has
\* answered 200 and its new asset is the tracked one
C1_Witness ==
    \E r \in Requests :
        /\ kind[r] = "uploadLogo" /\ pc[r] = "done" /\ status[r] = 200
        /\ oldLogo[r] # Null
        /\ remoteResult[r] = "error"
        /\ DeletesIn(remoteOps, r) = <<oldLogo[r]>>
        /\ currentLogoFileId = uploadResult[r].fileId

C2_Step(r) ==
    (/\ kind[r] = "uploadLogo" /\ pc[r] = "uploadSettled" /\ pc'[r] # "uploadSettled"
     /\ remoteResult[r] = "ok"
     /\ currentLogoFileId = Null /\ currentLogoUrl = Null)
        => /\ remoteOps' = remoteOps
           /\ DeletesIn(remoteOps', r) = <<>>
           /\ pc'[r] = "done" /\ status'[r] = 200
           /\ currentLogoUrl' = uploadResult[r].url
           /\ currentLogoFileId' = uploadResult[r].fileId

\* C2: when the upload of an uploadLogo request has succeeded and no logo is
\* tracked, the request issues no remote delete at all, answers 200 and the
\* uploaded asset becomes the tracked logo.
C2_NoDeleteWithoutOldLogo == [][\A r \in Requests : C2_Step(r)]_vars

\* C2 witness: a first upload done, tracked, and never a deleteFile call
C2_Witness ==
    \E r \in Requests :
        /\ kind[r] = "uploadLogo" /\ pc[r] = "done" /\ status[r] = 200
        /\ oldLogo[r] = Null
        /\ currentLogoFileId = uploadResult[r].fileId
        /\ \A i \in 1..Len(remoteOps) : remoteOps[i].op # "deleteFile"

\* the identifiers of the assets on the host
HostIds == { host[i].fileId : i \in 1..Len(host) }

\* C3: while requests never overlapped and no deleteFile was rejected, after
\* each request the uploaded logos left on the host are exactly the tracked
\* one, or none when nothing is tracked.
C3_AtMostTheTrackedLogoRemains ==
    (~overlapped /\ ~deleteFailed /\ InFlight = {})
        => /\ HostIds = (IF currentLogoFileId = Null THEN {} ELSE {currentLogoFileId})
           /\ \A i \in 1..Len(host) : host[i].url = currentLogoUrl

\* C3 witness: after a replacement in sequence only the new logo is left
C3_Witness ==
    /\ ~overlapped /\ ~deleteFailed /\ InFlight = {}
    /\ \E r \in Requests :
        /\ kind[r] = "uploadLogo" /\ pc[r] = "done" /\ oldLogo[r] # Null
        /\ HostIds = {uploadResult[r].fileId}
        /\ ~OnHost(oldLogo[r])

-----------------------------------------------------------------------------
(* Properties of getImageKitFileId, checked under ResolveSpec *)

\* a listing that was consulted and answered
Consulted == { resp \in {folderResp, globalResp} : resp.state = "ok" }

\* C4: when a consulted listing, folder-scoped or global, holds an asset whose
\* filePath equals the path extracted from the URL, the call returns that
\* asset's fileId.
C4_ExactPathReturnsThatAsset ==
    rpc = "done" =>
        \A resp \in Consulted : \A i \in 1..Len(resp.files) :
            resp.files[i].filePath = filePath
                => outcome = "returned" /\ result = resp.files[i].fileId

\* C5: when both listFiles calls fail, the call returns null and does not throw.
C5_BothListingsFailNotFound ==
    (rpc = "done" /\ folderResp.state = "error" /\ globalResp.state = "error")
        => outcome = "returned" /\ result = Null

\* C5 witness: a lookup done after both listings failed
C5_Witness ==
    /\ rpc = "done" /\ folderResp.state = "error" /\ globalResp.state = "error"
    /\ Len(remoteOps) = 2

\* the asset the four criteria pick in strict priority: exact path, exact URL,
\* exact filename, path suffix; first in list order within a criterion
PriorityPick(files, url, path, name) ==
    LET byPath == { i \in 1..Len(files) : files[i].filePath = path }
        byUrl == { i \in 1..Len(files) : files[i].url = url }
        byName == { i \in 1..Len(files) : files[i].name = name }
        bySuffix == { i \in 1..Len(files) : EndsWith(files[i].filePath, name) }
        Least(hits) == CHOOSE i \in hits : \A j \in hits : i <= j
    IN  IF byPath # {} THEN files[Least(byPath)].fileId
        ELSE IF byUrl # {} THEN files[Least(byUrl)].fileId
        ELSE IF byName # {} THEN files[Least(byName)].fileId
        ELSE IF bySuffix # {} THEN files[Least(bySuffix)].fileId
        ELSE Null

\* Method 1 ended the call with a match
Method1Decided == rpc = "done" /\ folderResp.state = "ok" /\ globalResp.state = "none"

\* C6: the folder-scoped lookup returns the asset picked in strict priority
\* exact path, exact URL, exact filename, path suffix (first in list order
\* within a criterion), and finds no match only when no criterion is met.
C6_FolderLookupStrictPriority ==
    folderResp.state = "ok" =>
        IF PriorityPick(folderResp.files, imageUrl, filePath, fileName) # Null
        THEN /\ Method1Decided
             /\ result = PriorityPick(folderResp.files, imageUrl, filePath, fileName)
        ELSE ~Method1Decided

\* C7: the global fallback returns the asset the folder-scoped rules would
\* pick from the global listing.
C7_GlobalFallbackSamePriority ==
    (rpc = "done" /\ globalResp.state = "ok")
        => result = Method1Match(globalResp.files, imageUrl, filePath, fileName)

\* C8: after an error of the folder-scoped listFiles the global listing is
\* still asked for, and the call returns the match of the global listing.
C8_FolderErrorFallsBackToGlobal ==
    folderResp.state = "error" =>
        /\ rpc \in {"method2", "done"}
        /\ remoteOps = <<ListFilesOp(folderPath), ListFilesOp(AllFolders)>>
        /\ rpc = "done" =>
            /\ globalResp.state # "none"
            /\ outcome = "returned"
            /\ globalResp.state = "ok" =>
                 result = Method2Match(globalResp.files, imageUrl, filePath, fileName)

\* C8 witness: the folder listing failed and the global listing gave the match
C8_Witness ==
    /\ rpc = "done" /\ folderResp.state = "error" /\ globalResp.state = "ok"
    /\ result # Null
    /\ \E i \in 1..Len(globalResp.files) : globalResp.files[i].fileId = result

\* neither an absolute URL nor a bare path
NoUrlNoPath(s) == ~IsAbsoluteUrl(s) /\ ~StartsWith(s, <<"/">>)

\* C9: for an argument that is neither an absolute URL nor a bare path the
\* call issues no listFiles call, does not throw and returns null.
C9_InvalidUrlNotFoundWithoutListing ==
    NoUrlNoPath(imageUrl) =>
        /\ remoteOps = <<>>
        /\ rpc \in {"start", "done"}
        /\ rpc = "done" => (outcome = "returned" /\ result = Null)

\* C9 witness: a relative path was turned down
C9_Witness ==
    /\ rpc = "done" /\ NoUrlNoPath(imageUrl)
    /\ IsString(imageUrl) /\ Len(imageUrl) > 1

\* C10: every step of a getImageKitFileId call leaves the assets of the host
\* as they are, and the only remote calls it issues are listFiles calls.
C10_LookupIsReadOnly ==
    [][/\ host' = host
       /\ \A i \in 1..Len(remoteOps') : remoteOps'[i].op = "listFiles"]_vars

\* C10 witness: a lookup that asked for both listings found its asset
C10_Witness ==
    /\ rpc = "done" /\ result # Null /\ Len(remoteOps) = 2 /\ Len(host) > 0

-----------------------------------------------------------------------------
(* Properties of updateProduct and deleteImageFromImageKit, checked under     *)
(* UpdateSpec                                                                 *)

\* the photos the request removes
Removed == ToRemove(existingPhotos, existingPhotosToKeep)

\* the deleteFile calls issued so far
DeleteOps == SelectSeq(remoteOps, LAMBDA c : c.op = "deleteFile")

\* C11: with no endpoint configured no URL is classified as hosted, not even
\* one on the provider's own domain, so updateProduct marks no photo for
\* deletion and issues no remote call.
C11_NoEndpointNothingHosted ==
    Falsy(endpoint) =>
        /\ \A n \in 1..Len(PhotoUrlList) : ~IsImageKitUrl(PhotoUrlList[n])
        /\ imagesToDelete = <<>>
        /\ remoteOps = <<>>

\* C11 witness: without an endpoint a photo on the provider's domain was
\* removed, the update was answered and nothing was marked
C11_Witness ==
    /\ Falsy(endpoint) /\ upc = "done" /\ ustatus = 200
    /\ \E i \in 1..Len(Removed) : StartsWith(Removed[i], ProviderPrefix)
    /\ imagesToDelete = <<>>

\* e occurs in u, letter for letter
ContainsText(u, e) ==
    \E p \in 0..(Len(u) - Len(e)) : \A n \in 1..Len(e) : u[p + n] = e[n]

\* u begins with the provider's domain
OnProviderDomain(u) == Len(u) >= 2 /\ u[1] = "k" /\ u[2] = "/"

\* C12: with an endpoint configured a removed photo is marked as hosted exactly
\* when its URL contains the endpoint letter for letter or begins with the
\* provider's domain; <endpoint>/app-assets/app-logo.png is hosted, the same
\* URL in another letter case is not.
C12_HostedIffEndpointOrProviderDomain ==
    ~Falsy(endpoint) =>
        /\ upc # "new" =>
             \A i \in 1..Len(Removed) :
                 InSeq(Removed[i], imagesToDelete)
                     <=> (ContainsText(Removed[i], endpoint) \/ OnProviderDomain(Removed[i]))
        /\ IsImageKitUrl(endpoint \o <<"/", "l", "/", "p">>)
        /\ ~IsImageKitUrl(<<"H", "/", "l", "/", "p">>)

\* C12 witness: of two removed photos the one on the endpoint was marked and
\* the one that differs in letter case was not
C12_Witness ==
    /\ ~Falsy(endpoint) /\ upc = "done"
    /\ InSeq(PhotoUrlList[1], Removed) /\ InSeq(PhotoUrlList[5], Removed)
    /\ imagesToDelete = <<PhotoUrlList[1]>>

\* C13: every deleteImageFromImageKit call comes back with true or false and
\* never throws, whether the lookup found nothing, the listings failed or
\* deleteFile was rejected; it comes back with true exactly when deleteFile
\* completed without error.
C13_DeleteNeverThrows ==
    \A i \in Items :
        itemPc[i] = "done" =>
            /\ deleted[i] \in {"true", "false"}
            /\ deleted[i] = "true" <=> settledAs[i] = "ok"

\* C13 witness: one call came back false after both listings failed, another
\* after deleteFile was rejected
C13_Witness ==
    \E i, j \in Items :
        /\ itemPc[i] = "done" /\ lookedUp[i] = Null /\ deleted[i] = "false"
        /\ itemPc[j] = "done" /\ settledAs[j] = "error" /\ deleted[j] = "false"

\* C14: no deleteFile call of an update names the asset of a photo that the
\* request keeps.
C14_NoDeleteOfKeptPhoto ==
    \A n \in 1..Len(DeleteOps) :
        \A m \in 1..Len(existingPhotosToKeep) :
            RefAsset(existingPhotosToKeep[m]) # DeleteOps[n].arg

\* the images a deleteFile call was issued for
Attempted == { i \in Items : targetId[i] # Null }

\* C15: a removed photo that isImageKitUrl does not recognise is never marked,
\* every deleteFile call belongs to a marked, recognised photo, and no
\* deleteFile call names a URL.
C15_NoDeleteForNotHosted ==
    /\ \A i \in 1..Len(imagesToDelete) : IsImageKitUrl(imagesToDelete[i])
    /\ \A i \in Attempted : i <= Len(imagesToDelete) /\ IsImageKitUrl(imagesToDelete[i])
    /\ Len(DeleteOps) = Cardinality(Attempted)
    /\ \A n \in 1..Len(DeleteOps) : ~InSeq(DeleteOps[n].arg, existingPhotos)

\* C15 witness: a hosted and a local photo were removed; the one deleteFile
\* call is the hosted photo's
C15_Witness ==
    /\ upc = "done" /\ ustatus = 200
    /\ InSeq(PhotoUrlList[4], Removed)
    /\ Len(imagesToDelete) = 1
    /\ Len(DeleteOps) = 1 /\ settledAs[1] = "ok"

\* C16: when an update whose write succeeded is over, every marked image had
\* its lookup, and its deleteFile call when the lookup gave a fileId, whatever
\* became of the images before it.
C16_BatchContinuesAfterFailure ==
    (upc = "done" /\ saved) =>
        \A i \in 1..Len(imagesToDelete) :
            /\ itemPc[i] = "done"
            /\ lookedUp[i] # NotLookedUp
            /\ ~Falsy(lookedUp[i]) => (targetId[i] = lookedUp[i] /\ settledAs[i] # "none")

\* C16 witness: the first image failed, once in its lookup and once in its
\* deleteFile call, and the second image was deleted all the same
C16_Witness ==
    /\ upc = "done" /\ Len(imagesToDelete) = 2
    /\ deleted[1] = "false" /\ deleted[2] = "true"

\* the images whose lookup gave a fileId
Resolved == { i \in 1..Len(imagesToDelete) : lookedUp[i] # NotLookedUp /\ ~Falsy(lookedUp[i]) }

ReportTotal ==
    report.skippedNotHosted + report.skippedUnresolved + report.deleted + report.failed

InFlightDeletes == { i \in Items : itemPc[i] \in {"awaitDelete", "deleteSettled"} }

\* C18: at most one deleteFile call of the update is in flight, and while the
\* call of an image is in flight every image before it is finished.
C18_DeletesOneAtATime ==
    /\ Cardinality(InFlightDeletes) <= 1
    /\ \A i \in Items :
         itemPc[i] # "todo" => \A j \in 1..(i - 1) : itemPc[j] = "done"

\* C18 witness: the deleteFile call of the second image is in flight after the
\* call of the first came back
C18_Witness ==
    /\ itemPc[2] = "awaitDelete" /\ itemPc[1] = "done" /\ settledAs[1] # "none"

\* C19: once the photo list is written it stays written as requested, no
\* error is answered, and the finished update is answered with success.
C19_SavedUpdateReportsSuccess ==
    saved =>
        /\ photos = existingPhotosToKeep
        /\ ustatus \in {0, 200}
        /\ upc = "done" => ustatus = 200

\* C19 witness: the update is answered with success although a lookup found
\* nothing and a deleteFile call was rejected
C19_Witness ==
    /\ upc = "done" /\ saved /\ ustatus = 200 /\ photos = existingPhotosToKeep
    /\ \E i, j \in Items :
        /\ lookedUp[i] = Null /\ deleted[i] = "false"
        /\ settledAs[j] = "error" /\ deleted[j] = "false"

\* every removed photo that has an asset was marked and deleted
EveryDeleteSucceeded ==
    \A n \in 1..Len(Removed) :
        RefAsset(Removed[n]) # Null =>
            \E i \in 1..Len(imagesToDelete) :
                imagesToDelete[i] = Removed[n] /\ deleted[i] = "true"

\* C20: the asset of every photo of the stored photo list is on the host or
\* is named by a deleteFile call still in flight; and when the update is over
\* and every removed photo was deleted, the product's assets left on the host
\* are those of the stored photo list.
C20_RecordedAssetsOnHost ==
    /\ \A a \in RefAssets(photos) :
         a \in HostIds \/ \E i \in InFlightDeletes : targetId[i] = a
    /\ (upc = "done" /\ saved /\ EveryDeleteSucceeded)
          => (HostIds \cap RefAssets(existingPhotos)) = RefAssets(photos)

-----------------------------------------------------------------------------
(* Further properties of the logo controller, checked under Spec *)

\* some deleteFile call names the asset
DeleteIssuedFor(ops, fileId) ==
    \E n \in 1..Len(ops) : ops[n].op = "deleteFile" /\ ops[n].arg = fileId

C21_Step(r, q) ==
    (/\ kind[r] = "uploadLogo" /\ Completes200(r)
     /\ kind[q] = "uploadLogo" /\ pc[q] = "done" /\ status[q] = 200
     /\ oldLogo[q] # Null /\ oldLogo'[r] = oldLogo[q])
        => /\ DeletesIn(remoteOps', r) = <<oldLogo[q]>>
           /\ DeletesIn(remoteOps', q) = <<oldLogo[q]>>
           /\ currentLogoFileId' = uploadResult[r].fileId
           /\ currentLogoFileId' # uploadResult[q].fileId
           /\ \/ \E i \in 1..Len(host') : host'[i].fileId = uploadResult[q].fileId
              \/ DeleteIssuedFor(remoteOps', uploadResult[q].fileId)

\* C21: when an uploadLogo answers 200 after another uploadLogo that read the
\* same logo P as the old one, both have issued their one deleteFile for P,
\* the later one's asset replaces the earlier one's as the tracked logo
\* unchecked, and the earlier one's asset is left on the host untracked unless
\* a further request deleted it.
C21_BothDeleteSameOldLogo ==
    [][\A r, q \in Requests : r # q => C21_Step(r, q)]_vars

\* C21 witness: two uploads read the same old logo, both asked for its
\* deletion, both are done; the asset of one is on the host, not tracked, and
\* no deleteFile call names it
C21_Witness ==
    \E r, q \in Requests :
        /\ r # q
        /\ kind[r] = "uploadLogo" /\ pc[r] = "done" /\ status[r] = 200
        /\ kind[q] = "uploadLogo" /\ pc[q] = "done" /\ status[q] = 200
        /\ oldLogo[q] # Null /\ oldLogo[r] = oldLogo[q]
        /\ DeletesIn(remoteOps, r) = <<oldLogo[q]>>
        /\ DeletesIn(remoteOps, q) = <<oldLogo[q]>>
        /\ currentLogoFileId = uploadResult[r].fileId
        /\ OnHost(uploadResult[q].fileId)
        /\ ~DeleteIssuedFor(remoteOps, uploadResult[q].fileId)

C24_Step(r) ==
    (kind[r] = "deleteLogo" /\ pc[r] = "deleteSettled" /\ pc'[r] = "done")
        => IF remoteResult[r] = "ok"
           THEN /\ status'[r] = 200
                /\ currentLogoUrl' = Null /\ currentLogoFileId' = Null
           ELSE /\ status'[r] = 500
                /\ currentLogoUrl' = currentLogoUrl
                /\ currentLogoFileId' = currentLogoFileId

\* C24: deleteLogo answers 200 and clears the reference when the deleteFile
\* call for the tracked fileId succeeded; when it was rejected deleteLogo
\* answers 500 and leaves the reference as it was.
C24_DeleteLogoFailsWith500 == [][\A r \in Requests : C24_Step(r)]_vars

C27_Step(r) ==
    /\ (kind[r] = "uploadLogo" /\ pc[r] = "uploadSettled" /\ pc'[r] # "uploadSettled"
        /\ remoteResult[r] = "error")
          => /\ pc'[r] = "done" /\ status'[r] = 500
             /\ remoteOps' = remoteOps
             /\ currentLogoUrl' = currentLogoUrl
             /\ currentLogoFileId' = currentLogoFileId
    /\ (kind[r] = "uploadLogo" /\ DeletesIn(remoteOps', r) # DeletesIn(remoteOps, r))
          => /\ pc[r] = "uploadSettled" /\ remoteResult[r] = "ok"
             /\ OnHost(uploadResult[r].fileId)

\* C27: an uploadLogo whose upload failed answers 500, issues no remote call
\* and leaves the reference as it was; an uploadLogo issues its deleteFile
\* only after its upload succeeded.
C27_NoDeleteAfterFailedUpload == [][\A r \in Requests : C27_Step(r)]_vars

\* C27 witness: a logo is tracked, a later upload failed with 500, and the
\* tracked logo is still there with no deleteFile call issued
C27_Witness ==
    \E r \in Requests :
        /\ kind[r] = "uploadLogo" /\ pc[r] = "done" /\ status[r] = 500
        /\ currentLogoFileId # Null /\ OnHost(currentLogoFileId)
        /\ \A n \in 1..Len(remoteOps) : remoteOps[n].op # "deleteFile"

-----------------------------------------------------------------------------
(* Properties of getLogo and of restarts, checked under ServerSpec *)

\* request r is answered by getLogo in this step
GetLogoAnswers(r) == kind[r] = "none" /\ kind'[r] = "getLogo"

\* the requests since the last restart and before r that changed the logo:
\* uploadLogo and deleteLogo requests answered 200
ChangesBefore(r) ==
    { q \in (arrivedBefore + 1)..(r - 1) :
        kind[q] \in {"uploadLogo", "deleteLogo"} /\ status[q] = 200 }

LastOf(set) == CHOOSE q \in set : \A p \in set : p <= q

C25_Step(r) ==
    GetLogoAnswers(r)
        => /\ host' = host /\ remoteOps' = remoteOps
           /\ currentLogoUrl' = currentLogoUrl
           /\ currentLogoFileId' = currentLogoFileId
           /\ ~overlapped'
                => IF \/ ChangesBefore(r) = {}
                      \/ kind[LastOf(ChangesBefore(r))] = "deleteLogo"
                   THEN status'[r] = 404 /\ getBody'[r] = Null
                   ELSE /\ status'[r] = 200
                        /\ getBody'[r] =
                             [url |-> uploadResult[LastOf(ChangesBefore(r))].url,
                              fileId |-> uploadResult[LastOf(ChangesBefore(r))].fileId]

\* C25: getLogo changes neither the reference nor the host and issues no
\* remote call; when no two requests overlapped, it answers 404 if no
\* uploadLogo was answered 200 since the process started or since the last
\* deleteLogo answered 200, and otherwise 200 with the url and fileId of the
\* last uploadLogo answered 200.
C25_GetLogoReportsLastUpload == [][\A r \in Requests : C25_Step(r)]_vars

\* C25 witness: without overlap, an upload succeeded and a later getLogo
\* answered 200 with its url and fileId
C25_Witness ==
    /\ ~overlapped
    /\ \E u, g \in Requests :
        /\ u < g
        /\ kind[u] = "uploadLogo" /\ status[u] = 200
        /\ kind[g] = "getLogo" /\ status[g] = 200
        /\ getBody[g] = [url |-> uploadResult[u].url, fileId |-> uploadResult[u].fileId]

C28_Step(r) ==
    (GetLogoAnswers(r) /\ status'[r] = 200)
        => \E i \in 1..Len(host) : host[i].fileId = getBody'[r].fileId

\* C28 as stated: every 200 answer of getLogo names an asset that is on the
\* host when the answer is sent, whatever other request is in flight.
C28_GetLogoAssetOnHost == [][\A r \in Requests : C28_Step(r)]_vars

\* the requests in flight that have issued a deleteFile call for the asset
DeletingNow(fileId) ==
    { q \in InFlight : fileId \in { DeletesIn(remoteOps, q)[n] :
                                      n \in 1..Len(DeletesIn(remoteOps, q)) } }

C28_AmendedStep(r) ==
    (GetLogoAnswers(r) /\ status'[r] = 200)
        => /\ getBody'[r] = [url |-> currentLogoUrl, fileId |-> currentLogoFileId]
           /\ \/ \E i \in 1..Len(host) : host[i].fileId = getBody'[r].fileId
              \/ DeletingNow(getBody'[r].fileId) # {}

\* C28 amended: every 200 answer of getLogo names the tracked asset, which is
\* on the host when the answer is sent unless a request that issued a
\* deleteFile call for it has not completed yet.
C28_GetLogoAssetOnHostUnlessBeingDeleted ==
    [][\A r \in Requests : C28_AmendedStep(r)]_vars

\* C28 witness: a getLogo answered 200 with an asset that is on the host while
\* another request is suspended on its deleteFile call for that asset
C28_Witness ==
    \E g \in Requests :
        /\ kind[g] = "getLogo" /\ status[g] = 200
        /\ OnHost(getBody[g].fileId)
        /\ \E q \in DeletingNow(getBody[g].fileId) : pc[q] = "awaitDelete"

\* the requests that arrived after the last restart
SinceRestart == { q \in Requests : q > arrivedBefore /\ pc[q] # "new" }

C29_Step ==
    /\ restarts' > restarts
          => currentLogoUrl' = Null /\ currentLogoFileId' = Null
    /\ \A r \in Requests :
          /\ (restarts > 0 /\ GetLogoAnswers(r)
              /\ \A q \in SinceRestart : ~(kind[q] = "uploadLogo" /\ status[q] = 200))
                => status'[r] = 404
          /\ (restarts > 0 /\ r > arrivedBefore
              /\ kind[r] = "uploadLogo" /\ Completes200(r)
              /\ \A q \in SinceRestart \ {r} : ~(kind[q] = "uploadLogo" /\ status[q] = 200))
                => DeletesIn(remoteOps', r) = <<>>
    /\ (restarts' > 0 /\ lostLogo' # Null)
          => /\ \A n \in 1..Len(remoteOps') :
                   (remoteOps'[n].op = "deleteFile" /\ remoteOps'[n].arg = lostLogo')
                       => remoteOps'[n].by <= arrivedBefore'
             /\ ~DeleteIssuedFor(remoteOps', lostLogo')
                   => \E i \in 1..Len(host') : host'[i].fileId = lostLogo'

\* C29: a restart empties the reference; after it getLogo answers 404 until an
\* uploadLogo is answered 200, the first uploadLogo answered 200 issues no
\* deleteFile call, no request after the restart issues a deleteFile call for
\* the logo tracked before it, and that logo stays on the host.
C29_RestartForgetsLogo == [][C29_Step]_vars

\* C29 witness: a logo was tracked at the restart, afterwards an uploadLogo
\* was answered 200 without a deleteFile call, and the earlier logo is on the
\* host next to the new one
C29_Witness ==
    /\ restarts > 0 /\ lostLogo # Null
    /\ OnHost(lostLogo)
    /\ \E r \in SinceRestart :
          /\ kind[r] = "uploadLogo" /\ status[r] = 200
          /\ DeletesIn(remoteOps, r) = <<>>
          /\ currentLogoFileId = uploadResult[r].fileId
          /\ currentLogoFileId # lostLogo

-----------------------------------------------------------------------------
(* Property of the upload name, checked under NamingSpec *)

\* C26: the name a logo is uploaded under is 'app-logo.' followed by an
\* extension when the request gives no fileName, and the request's fileName
\* when it gives one, for a multipart file as for a base64 body.
C26_UploadNameIsDefaultOrCustom ==
    npc = "uploaded"
        => IF Falsy(nameReq.fileName)
           THEN /\ Len(uploadName) = 3
                /\ SubSeq(uploadName, 1, 2) = AppLogo \o <<".">>
           ELSE uploadName = nameReq.fileName

-----------------------------------------------------------------------------
(* Property of the cleanup script, checked under CleanupSpec *)

\* C30: the script exits with 1 when a connect, count or deleteMany step
\* failed, with 0 only when all five collections were deleted, and in either
\* case leaves no connection open at the exit.
C30_ExitCodeTellsFailure ==
    cpc = "exited"
        => /\ failedAt # 0 => exitCode = 1
           /\ exitCode = 0 => deletedColls = DeletedCollections
           /\ connection # "open"

-----------------------------------------------------------------------------
(* Property of two racing updateProduct requests, checked under RaceSpec *)

LastWriter == saveOrder[Len(saveOrder)]

\* the asset of a URL is on the host
UrlOnHost(url) == HostedAsset(host, url) # Null

====
